---- MODULE Spec2Model ----
(***************************************************************************)
(* Model of camera.h (raytracpper): camera::render, its worker threads     *)
(* (camera::render_section), the shared framebuffer and progress counter,  *)
(* and the recursive path integrator camera::ray_color.                    *)
(*                                                                         *)
(* Abstractions of the value domains (control flow is kept as written):    *)
(*  - a colour is one integer channel; black is 0; attenuation is integer  *)
(*    multiplication; pixel_samples_scale * c is the rational c / spp,     *)
(*    kept as the pair [num, den];                                         *)
(*  - a ray is an identifier in Rays: one class of rays that the scene     *)
(*    treats alike; a scene maps each class to miss / absorbed / scattered *)
(*    (attenuation, outgoing ray);                                         *)
(*  - the random source is one deterministic stream per worker thread;     *)
(*    a worker's state holds its position in its stream.                   *)
(***************************************************************************)
EXTENDS Integers, Sequences, FiniteSets

\* ---------------------------------------------------------------- bounds
MaxWidth == 2
MaxAspectNum == 2
MaxThreads == 2
MaxSamples == 2
MaxDepth == 2
MaxRenders == 2
NumRays == 3
NumJitter == 2
MaxAtten == 3
MaxRows == 6

VARIABLES
  \* camera configuration (public fields) and platform
  image_width, aspect_ratio, samples_per_pixel, max_depth, defocus_angle,
  hw, world,
  \* the build: whether the first argument of a call is evaluated first
  x_first,
  \* derived by initialize()
  image_height,
  \* render(): position of the calling thread and its locals
  pc, thread_count, rows_per_thread, t, emit_index, framebuffer,
  \* shared atomic counter and the worker threads
  sections_remaining, threads,
  \* streams: std::cout and the integers sent to std::clog by the workers,
  \* from the start of the process; nothing ever clears them
  out, progress,
  \* history: the streams' lengths when the current render call began
  out_mark, progress_mark,
  \* history: per framebuffer index, what was stored there and by whom
  stored, renders, prev_framebuffer,
  \* inputs and result of one isolated ray_color call
  rc_ray, rc_depth, rc_result

cfg_vars == <<image_width, aspect_ratio, samples_per_pixel, max_depth,
              defocus_angle, hw, world, x_first>>
mark_vars == <<out_mark, progress_mark>>
rc_vars == <<rc_ray, rc_depth, rc_result>>
vars == <<image_width, aspect_ratio, samples_per_pixel, max_depth,
          defocus_angle, hw, world, x_first, image_height, pc, thread_count,
          rows_per_thread, t, emit_index, framebuffer, sections_remaining,
          threads, out, progress, out_mark, progress_mark, stored, renders,
          prev_framebuffer, rc_ray, rc_depth, rc_result>>

\* ------------------------------------------------------------ scenes, rays
Rays == 0 .. NumRays - 1
Black == 0

Miss == [kind |-> "miss", att |-> 0, to |-> 0]
Absorb == [kind |-> "absorb", att |-> 0, to |-> 0]
Scatter(a, r) == [kind |-> "scatter", att |-> a, to |-> r]

Outcomes == {Miss, Absorb} \cup {Scatter(a, r) : a \in 2 .. MaxAtten, r \in Rays}

\* every scene over the ray classes
AllWorlds == [Rays -> Outcomes]

\* the empty scene: every ray misses
EmptyWorld == [r \in Rays |-> Miss]

\* ray 0 is absorbed, the last ray class escapes, the others bounce onward
ChainWorld ==
  [r \in Rays |-> IF r = 0 THEN Absorb
                  ELSE IF r = NumRays - 1 THEN Miss
                  ELSE Scatter(2, r + 1)]

\* a hall of mirrors: every ray scatters for ever, except the last which misses
MirrorWorld ==
  [r \in Rays |-> IF r = NumRays - 1 THEN Miss ELSE Scatter(MaxAtten, r)]

\* the scenes rendered: a scene, the depth it is traced to, the lens, the
\* samples taken per pixel
RenderScenes ==
  { [world |-> EmptyWorld, max_depth |-> 1, defocus_angle |-> 0,
     samples_per_pixel |-> 1],
    [world |-> ChainWorld, max_depth |-> MaxDepth, defocus_angle |-> 1,
     samples_per_pixel |-> MaxSamples],
    [world |-> MirrorWorld, max_depth |-> MaxDepth, defocus_angle |-> 0,
     samples_per_pixel |-> MaxSamples] }

\* world.hit(r, interval(0.001, infinity), rec)
hit(w, r) == w[r].kind # "miss"

\* rec.mat->scatter(r, rec, attenuation, scattered)
scatter(w, r) == w[r].kind = "scatter"

\* (1.0-a)*white + a*skyblue, a from the ray's direction: never black
background(r) == r + 1

\* ---------------------------------------------------------------- ray_color
\* variant: the base case tests depth < 0, one level too deep
RECURSIVE ray_color_inclusive(_, _, _)
ray_color_inclusive(r, depth, w) ==
  IF depth < 0 THEN [col |-> Black, hits |-> 0, scatters |-> 0]
  ELSE IF hit(w, r)
       THEN IF scatter(w, r)
            THEN LET rest == ray_color_inclusive(w[r].to, depth - 1, w)
                 IN  [col |-> w[r].att * rest.col,
                      hits |-> rest.hits + 1,
                      scatters |-> rest.scatters + 1]
            ELSE [col |-> Black, hits |-> 1, scatters |-> 1]
       ELSE [col |-> background(r), hits |-> 1, scatters |-> 0]

RECURSIVE ray_color(_, _, _)
ray_color(r, depth, w) ==
  IF depth <= 0 THEN [col |-> Black, hits |-> 0, scatters |-> 0]
  ELSE IF hit(w, r)
       THEN IF scatter(w, r)
            THEN LET rest == ray_color(w[r].to, depth - 1, w)
                 IN  [col |-> w[r].att * rest.col,
                      hits |-> rest.hits + 1,
                      scatters |-> rest.scatters + 1]
            ELSE [col |-> Black, hits |-> 1, scatters |-> 1]
       ELSE [col |-> background(r), hits |-> 1, scatters |-> 0]

\* ------------------------------------------------------------ random source
\* the n-th value of a freshly seeded stream (each worker thread owns one),
\* as one of NumJitter levels of the unit interval
random_double(n) == ((n * (n + 3)) \div 2 + 1) % NumJitter

\* sample_square(): vec3(random_double() - 0.5, random_double() - 0.5, 0).
\* The two draws are the arguments of one call, and the order in which a
\* build evaluates them is unspecified: x takes the first draw and y the
\* second, or the other way round
sample_square(n) ==
  IF x_first THEN [x |-> random_double(n), y |-> random_double(n + 1)]
  ELSE [x |-> random_double(n + 1), y |-> random_double(n)]

\* defocus_disk_sample(): one point of the lens disk
defocus_disk_sample(n) == random_double(n)

\* draws one get_ray call takes from the stream
DrawsPerRay == IF defocus_angle <= 0 THEN 2 ELSE 3

\* get_ray(i, j) at stream position n: the ray through the jittered sample
\* position of pixel (i, j), from the centre or from a point of the lens
get_ray(i, j, n) ==
  LET offset == sample_square(n)
      origin == IF defocus_angle <= 0 THEN 0 ELSE defocus_disk_sample(n + 2)
  IN  ((i * NumJitter + offset.x) + (j * NumJitter + offset.y) + origin) % NumRays

\* ----------------------------------------------------------- initialize()
\* a double has MantissaBits bits after the leading one
MantissaBits == 52

RECURSIVE Pow2(_)
Pow2(e) == IF e <= 0 THEN 1 ELSE 2 * Pow2(e - 1)

\* 2^e modulo d
RECURSIVE Pow2Mod(_, _)
Pow2Mod(e, d) == IF e <= 0 THEN 1 % d ELSE (2 * Pow2Mod(e - 1, d)) % d

\* floor(log2(n / d)) for n, d >= 1, searched upward or downward from L
RECURSIVE Log2Floor(_, _, _)
Log2Floor(n, d, L) ==
  IF n >= d
  THEN IF n >= d * Pow2(L + 1) THEN Log2Floor(n, d, L + 1) ELSE L
  ELSE IF n * Pow2(-L) < d THEN Log2Floor(n, d, L - 1) ELSE L

\* whether the double division width / aspect_ratio, whose exact value would
\* be the integer k = width * den / num, comes out below k.  aspect_ratio is
\* the double nearest to num / den; when that double lies above num / den by
\* rho / (den * 2^s) (s the scale that puts its mantissa in [2^52, 2^53)),
\* the quotient lies below k by k * rho / (num * 2^s + rho), and it is
\* rounded to the double below k when that exceeds half the spacing of the
\* doubles below k
QuotientBelow(k, ar) ==
  LET L == Log2Floor(ar.num, ar.den, 0)
      s == MantissaBits - L
      R == (ar.num * Pow2Mod(s, ar.den)) % ar.den
      rho == ar.den - R
      Ek == Log2Floor(k, 1, 0)
      E == IF Pow2(Ek) = k THEN Ek - 1 ELSE Ek
      c == 1 + L - E
  IN  /\ k >= 1
      /\ R # 0
      /\ 2 * R > ar.den
      /\ IF c >= 0 THEN k * rho * Pow2(c) > ar.num
                   ELSE k * rho > ar.num * Pow2(-c)

\* int(image_width / aspect_ratio), a division of doubles truncated to int,
\* then clamped to at least 1
initialize_height(width, ar) ==
  LET exact == (width * ar.den) \div ar.num
      h == IF (width * ar.den) % ar.num = 0 /\ QuotientBelow(exact, ar)
           THEN exact - 1 ELSE exact
  IN  IF h < 1 THEN 1 ELSE h

\* pixel_samples_scale * c, with pixel_samples_scale = 1.0 / samples_per_pixel
Scaled(c) == [kind |-> "pixel", num |-> c, den |-> samples_per_pixel]

\* the header render writes to std::cout: "P3", width, height, 255
Header(width, height) == [kind |-> "P3", num |-> width, den |-> height]

\* ------------------------------------------------------------ partitioning
ThreadCount == hw

RowsPerThread(H, W) == H \div W

StartRow(k, rows) == k * rows

\* variant: the last worker gets no remainder
EndRowNoRemainder(k, rows, H, W) == StartRow(k, rows) + rows

EndRow(k, rows, H, W) == IF k = W - 1 THEN H ELSE StartRow(k, rows) + rows

\* variant: the row is not scaled by the width, so pixels of neighbouring
\* rows share an index
PixelIndexNoStride(i, j) == j + i

PixelIndex(i, j) == j * image_width + i

\* the pre-decrement of the atomic counter
PreDecrement(n) == n - 1

\* variant: the counter starts one short
SectionsInitShort(W) == W - 1

\* the counter's value when the workers are launched
SectionsInit(W) == W

\* variant: the threads are detached, nothing waits for them
JoinNoWait(k) == TRUE

\* variant: the wait is for the worker's decrement, not for its end
JoinOnCounter(k) == threads[k].st # "run"

\* thread.join() on worker k returns once the worker has run to its end
JoinReturns(k) == threads[k].st = "done"

\* ----------------------------------------------------------- render_section
\* the sample loop of one pixel, started at stream position n
RECURSIVE SumSamples(_, _, _, _)
SumSamples(i, j, n, sample) ==
  IF sample >= samples_per_pixel THEN Black
  ELSE ray_color(get_ray(i, j, n), max_depth, world).col
       + SumSamples(i, j, n + DrawsPerRay, sample + 1)

EmptyFn == [x \in {} |-> 0]
NoResult == [col |-> -1, hits |-> -1, scatters |-> -1]
NotStored == [n |-> 0, by |-> {}, ns |-> 0, px |-> <<-1, -1>>]
\* the aspect ratios rendered, num/den
AspectRatios ==
  { [num |-> 1, den |-> 1], [num |-> 2, den |-> 3],
    [num |-> MaxAspectNum, den |-> 1] }

\* ------------------------------------------------------------------- Init
Init ==
  /\ image_width \in 1 .. MaxWidth
  /\ aspect_ratio \in AspectRatios
  /\ hw \in 0 .. MaxThreads
  /\ x_first \in BOOLEAN
  /\ \E s \in RenderScenes :
       /\ world = s.world
       /\ max_depth = s.max_depth
       /\ defocus_angle = s.defocus_angle
       /\ samples_per_pixel = s.samples_per_pixel
  /\ image_height = 0
  /\ pc = "idle"
  /\ thread_count = 0
  /\ rows_per_thread = 0
  /\ t = 0
  /\ emit_index = 0
  /\ framebuffer = EmptyFn
  /\ sections_remaining = 0
  /\ threads = EmptyFn
  /\ out = <<>>
  /\ progress = <<>>
  /\ out_mark = 0
  /\ progress_mark = 0
  /\ stored = EmptyFn
  /\ renders = 0
  /\ prev_framebuffer = EmptyFn
  /\ rc_ray = 0
  /\ rc_depth = 0
  /\ rc_result = NoResult

\* ---------------------------------------------------------------- render()
\* initialize(), the framebuffer's allocation, the header
RenderBegin ==
  /\ pc = "idle"
  /\ renders < MaxRenders
  /\ LET H == initialize_height(image_width, aspect_ratio)
     IN  /\ image_height' = H
         /\ framebuffer' = [x \in 0 .. image_width * H - 1 |-> Black]
         /\ stored' = [x \in 0 .. image_width * H - 1 |-> NotStored]
         /\ out' = Append(out, Header(image_width, H))
  /\ out_mark' = Len(out)
  /\ progress_mark' = Len(progress)
  /\ threads' = EmptyFn
  /\ pc' = "partition"
  /\ UNCHANGED <<cfg_vars, rc_vars, thread_count, rows_per_thread, t,
                 emit_index, sections_remaining, progress, renders,
                 prev_framebuffer>>

\* thread_count, rows_per_thread, sections_remaining
Partition ==
  /\ pc = "partition"
  /\ ThreadCount # 0
  /\ thread_count' = ThreadCount
  /\ rows_per_thread' = RowsPerThread(image_height, ThreadCount)
  /\ sections_remaining' = SectionsInit(ThreadCount)
  /\ t' = 0
  /\ pc' = "spawn"
  /\ UNCHANGED <<cfg_vars, rc_vars, mark_vars, image_height, emit_index, framebuffer,
                 threads, out, progress, stored, renders, prev_framebuffer>>

\* hardware_concurrency() == 0: image_height / 0 is undefined; the build
\* either traps (the process dies) ...
PartitionTrap ==
  /\ pc = "partition"
  /\ ThreadCount = 0
  /\ pc' = "crashed"
  /\ UNCHANGED <<cfg_vars, rc_vars, mark_vars, image_height, thread_count,
                 rows_per_thread, t, emit_index, framebuffer,
                 sections_remaining, threads, out, progress, stored, renders,
                 prev_framebuffer>>

\* ... or yields some quotient and goes on with zero workers
PartitionUndefined ==
  /\ pc = "partition"
  /\ ThreadCount = 0
  /\ thread_count' = ThreadCount
  /\ rows_per_thread' \in {0, image_height}
  /\ sections_remaining' = SectionsInit(ThreadCount)
  /\ t' = 0
  /\ pc' = "spawn"
  /\ UNCHANGED <<cfg_vars, rc_vars, mark_vars, image_height, emit_index, framebuffer,
                 threads, out, progress, stored, renders, prev_framebuffer>>

\* one iteration of the launch loop: threads.emplace_back(...)
SpawnThread ==
  /\ pc = "spawn"
  /\ t < thread_count
  /\ LET start_row == StartRow(t, rows_per_thread)
         end_row == EndRow(t, rows_per_thread, image_height, thread_count)
     IN  threads' = [k \in 0 .. t |->
                       IF k = t
                       THEN [st |-> "run", start_row |-> start_row,
                             end_row |-> end_row, j |-> start_row, i |-> 0,
                             rng |-> 0, remaining |-> 0, decs |-> 0]
                       ELSE threads[k]]
  /\ t' = t + 1
  /\ UNCHANGED <<cfg_vars, rc_vars, mark_vars, image_height, pc, thread_count,
                 rows_per_thread, emit_index, framebuffer, sections_remaining,
                 out, progress, stored, renders, prev_framebuffer>>

SpawnExit ==
  /\ pc = "spawn"
  /\ t >= thread_count
  /\ pc' = "join"
  /\ t' = 0
  /\ UNCHANGED <<cfg_vars, rc_vars, mark_vars, image_height, thread_count,
                 rows_per_thread, emit_index, framebuffer, sections_remaining,
                 threads, out, progress, stored, renders, prev_framebuffer>>

\* one iteration of the join loop
JoinThread ==
  /\ pc = "join"
  /\ t < thread_count
  /\ JoinReturns(t)
  /\ t' = t + 1
  /\ UNCHANGED <<cfg_vars, rc_vars, mark_vars, image_height, pc, thread_count,
                 rows_per_thread, emit_index, framebuffer, sections_remaining,
                 threads, out, progress, stored, renders, prev_framebuffer>>

JoinExit ==
  /\ pc = "join"
  /\ t >= thread_count
  /\ pc' = "emit"
  /\ emit_index' = 0
  /\ UNCHANGED <<cfg_vars, rc_vars, mark_vars, image_height, thread_count,
                 rows_per_thread, t, framebuffer, sections_remaining, threads,
                 out, progress, stored, renders, prev_framebuffer>>

\* one iteration of the emission loops (row-major, so index = emit_index)
EmitPixel ==
  /\ pc = "emit"
  /\ emit_index < image_width * image_height
  /\ LET j == emit_index \div image_width
         i == emit_index % image_width
     IN  out' = Append(out, Scaled(framebuffer[PixelIndex(i, j)]))
  /\ emit_index' = emit_index + 1
  /\ UNCHANGED <<cfg_vars, rc_vars, mark_vars, image_height, pc, thread_count,
                 rows_per_thread, t, framebuffer, sections_remaining, threads,
                 progress, stored, renders, prev_framebuffer>>

\* the "Done." notice and the return; the locals go away
RenderDone ==
  /\ pc = "emit"
  /\ emit_index >= image_width * image_height
  /\ pc' = "idle"
  /\ renders' = renders + 1
  /\ prev_framebuffer' = framebuffer
  /\ framebuffer' = EmptyFn
  /\ threads' = EmptyFn
  /\ thread_count' = 0
  /\ rows_per_thread' = 0
  /\ t' = 0
  /\ emit_index' = 0
  /\ UNCHANGED <<cfg_vars, rc_vars, mark_vars, image_height, sections_remaining, out,
                 progress, stored>>

\* ---------------------------------------------------------- render_section()
\* one pixel: the sample loop and the store into the framebuffer
SectionPixel(k) ==
  /\ k \in DOMAIN threads
  /\ threads[k].st = "run"
  /\ threads[k].j < threads[k].end_row
  /\ LET i == threads[k].i
         j == threads[k].j
         index == PixelIndex(i, j)
         pixel_color == SumSamples(i, j, threads[k].rng, 0)
         last == i + 1 >= image_width
     IN  /\ index \in DOMAIN framebuffer
         /\ framebuffer' = [framebuffer EXCEPT ![index] = pixel_color]
         /\ stored' = [stored EXCEPT ![index] =
                         [n |-> @.n + 1, by |-> @.by \cup {k},
                          ns |-> samples_per_pixel, px |-> <<i, j>>]]
         /\ threads' = [threads EXCEPT
                          ![k].i = IF last THEN 0 ELSE i + 1,
                          ![k].j = IF last THEN j + 1 ELSE j,
                          ![k].rng = @ + samples_per_pixel * DrawsPerRay]
  /\ UNCHANGED <<cfg_vars, rc_vars, mark_vars, image_height, pc, thread_count,
                 rows_per_thread, t, emit_index, sections_remaining, out,
                 progress, renders, prev_framebuffer>>

\* int remaining = --sections_remaining;
SectionDecrement(k) ==
  /\ k \in DOMAIN threads
  /\ threads[k].st = "run"
  /\ threads[k].j >= threads[k].end_row
  /\ sections_remaining' = PreDecrement(sections_remaining)
  /\ threads' = [threads EXCEPT ![k].st = "report",
                                ![k].decs = @ + 1,
                                ![k].remaining = PreDecrement(sections_remaining)]
  /\ UNCHANGED <<cfg_vars, rc_vars, mark_vars, image_height, pc, thread_count,
                 rows_per_thread, t, emit_index, framebuffer, out, progress,
                 stored, renders, prev_framebuffer>>

\* std::clog << "\rSections Remaining: " << remaining
SectionReport(k) ==
  /\ k \in DOMAIN threads
  /\ threads[k].st = "report"
  /\ progress' = Append(progress, threads[k].remaining)
  /\ threads' = [threads EXCEPT ![k].st = "done"]
  /\ UNCHANGED <<cfg_vars, rc_vars, mark_vars, image_height, pc, thread_count,
                 rows_per_thread, t, emit_index, framebuffer,
                 sections_remaining, out, stored, renders, prev_framebuffer>>

Next ==
  \/ RenderBegin
  \/ Partition
  \/ PartitionTrap
  \/ PartitionUndefined
  \/ SpawnThread
  \/ SpawnExit
  \/ JoinThread
  \/ JoinExit
  \/ EmitPixel
  \/ RenderDone
  \/ \E k \in 0 .. MaxThreads : SectionPixel(k)
  \/ \E k \in 0 .. MaxThreads : SectionDecrement(k)
  \/ \E k \in 0 .. MaxThreads : SectionReport(k)

Spec == Init /\ [][Next]_vars

\* ------------------------------------------- ray_color called on its own
\* one call ray_color(r, depth, world), over every scene, ray and depth
InitRC ==
  /\ image_width = 1
  /\ aspect_ratio = [num |-> 1, den |-> 1]
  /\ samples_per_pixel = 1
  /\ max_depth \in -1 .. MaxDepth + 1
  /\ defocus_angle = 0
  /\ hw = 1
  /\ x_first = TRUE
  /\ world \in AllWorlds
  /\ image_height = 0
  /\ pc = "rc_call"
  /\ thread_count = 0
  /\ rows_per_thread = 0
  /\ t = 0
  /\ emit_index = 0
  /\ framebuffer = EmptyFn
  /\ sections_remaining = 0
  /\ threads = EmptyFn
  /\ out = <<>>
  /\ progress = <<>>
  /\ out_mark = 0
  /\ progress_mark = 0
  /\ stored = EmptyFn
  /\ renders = 0
  /\ prev_framebuffer = EmptyFn
  /\ rc_ray \in Rays
  /\ rc_depth = max_depth
  /\ rc_result = NoResult

RayColorCall ==
  /\ pc = "rc_call"
  /\ rc_result' = ray_color(rc_ray, rc_depth, world)
  /\ pc' = "rc_done"
  /\ UNCHANGED <<cfg_vars, mark_vars, rc_ray, rc_depth, image_height, thread_count,
                 rows_per_thread, t, emit_index, framebuffer,
                 sections_remaining, threads, out, progress, stored, renders,
                 prev_framebuffer>>

NextRC == RayColorCall

SpecRC == InitRC /\ [][NextRC]_vars

\* =================================================================== claims
Launched == pc \in {"join", "emit"}
Barrier == pc = "emit"
Workers == 0 .. thread_count - 1
Indices == 0 .. image_width * image_height - 1
RowsOf(k) == threads[k].start_row .. threads[k].end_row - 1
\* what the current render call has written to std::cout and std::clog
OutNow == SubSeq(out, out_mark + 1, Len(out))
ProgressNow == SubSeq(progress, progress_mark + 1, Len(progress))
Finished(k) == k \in DOMAIN threads /\ threads[k].st = "done"
               /\ threads[k].j >= threads[k].end_row

\* the ranges computed for H rows and W workers split [0, H)
Partitions(H, W) ==
  LET rows == RowsPerThread(H, W)
      s(k) == StartRow(k, rows)
      e(k) == EndRow(k, rows, H, W)
  IN  /\ s(0) = 0
      /\ e(W - 1) = H
      /\ \A k \in 0 .. W - 1 : s(k) <= e(k)
      /\ \A k \in 0 .. W - 2 : s(k + 1) = e(k)
      /\ \A row \in 0 .. H - 1 :
           Cardinality({k \in 0 .. W - 1 : s(k) <= row /\ row < e(k)}) = 1

\* C1: for 1 <= W <= H the row ranges handed to the workers are contiguous,
\* do not overlap, and cover [0, H): each row is in exactly one range.
C1_RowsPartitioned ==
  /\ pc = "partition" =>
       \A H \in 1 .. MaxRows : \A W \in 1 .. H : Partitions(H, W)
  /\ (Launched /\ 1 <= thread_count /\ thread_count <= image_height) =>
    /\ DOMAIN threads = Workers
    /\ threads[0].start_row = 0
    /\ threads[thread_count - 1].end_row = image_height
    /\ \A k \in Workers : threads[k].start_row <= threads[k].end_row
    /\ \A k \in 0 .. thread_count - 2 :
         threads[k + 1].start_row = threads[k].end_row
    /\ \A row \in 0 .. image_height - 1 :
         Cardinality({k \in Workers : row \in RowsOf(k)}) = 1

\* the remainder case: H = 3 rows over W = 2 workers, the last one takes two
C1_Witness ==
  /\ Launched
  /\ thread_count = 2
  /\ image_height = 3
  /\ threads[1].end_row - threads[1].start_row = 2

\* C2: every framebuffer index is written exactly once, by the one worker
\* whose row range holds its row; no index is written by two workers and no
\* worker writes outside its own rows.
C2_EachIndexWrittenOnce ==
  (pc \in {"spawn", "join", "emit"}) =>
    /\ \A x \in Indices :
         /\ stored[x].n <= 1
         /\ \A k \in stored[x].by : (x \div image_width) \in RowsOf(k)
    /\ Barrier => \A x \in Indices : stored[x].n = 1

\* C3: when the emission loop runs, every worker has run to its end, so no
\* framebuffer entry can change any more.
C3_EmitAfterJoin ==
  Barrier => \A k \in Workers : Finished(k)

\* emission under way after two workers were joined
C3_Witness ==
  /\ Barrier
  /\ emit_index >= 1
  /\ thread_count >= 2
  /\ \A k \in Workers : Finished(k)

\* C4: the worker count render uses is at least 1, also when the platform
\* reports 0, and the whole image is then rendered by one worker.
C4_WorkerCountAtLeastOne ==
  /\ pc # "crashed"
  /\ pc \in {"spawn", "join", "emit"} => thread_count >= 1

\* C5: the remaining-worker counts reach the progress channel in
\* non-increasing order.
C5_ProgressNonIncreasing ==
  \A a, b \in 1 .. Len(ProgressNow) :
    a < b => ProgressNow[a] >= ProgressNow[b]

\* C6 as stated: nothing is written to the image stream before every worker
\* has finished.
C6_NoOutputBeforeBarrier ==
  pc \in {"partition", "spawn", "join", "crashed"} => OutNow = <<>>

\* C6 amended: before the barrier the image stream holds the header and
\* nothing else; a pixel colour is written only once every worker has run to
\* its end.
C6_OnlyHeaderBeforeBarrier ==
  /\ pc \in {"partition", "spawn", "join", "crashed"} =>
       OutNow = <<Header(image_width, image_height)>>
  /\ (pc # "idle" /\ Len(OutNow) > 1) =>
       /\ Barrier
       /\ \A k \in Workers : Finished(k)

\* the header is out while a worker is still rendering
C6_Witness ==
  /\ pc = "join"
  /\ OutNow = <<Header(image_width, image_height)>>
  /\ \E k \in DOMAIN threads : threads[k].st = "run" /\ threads[k].j > threads[k].start_row

\* C7: the counter is W when the workers are launched (on every render
\* call), each worker decrements it once and only after writing all of its
\* rows, it never goes below 0, it is the number of workers that have not
\* completed, and it is 0 past the barrier.
C7_CounterCountsWorkers ==
  (pc \in {"spawn", "join", "emit"}) =>
    /\ sections_remaining >= 0
    /\ (pc = "spawn" /\ t = 0) => sections_remaining = thread_count
    /\ \A k \in DOMAIN threads :
         /\ threads[k].decs <= 1
         /\ threads[k].decs = 1 <=> threads[k].st \in {"report", "done"}
         /\ threads[k].decs = 1 =>
              /\ threads[k].j >= threads[k].end_row
              /\ \A x \in Indices :
                   (x \div image_width) \in RowsOf(k) => stored[x].n >= 1
    /\ sections_remaining =
         thread_count - Cardinality({k \in DOMAIN threads : threads[k].decs = 1})
    /\ Barrier => sections_remaining = 0

\* the second render call: the counter is back at W = 2
C7_Witness ==
  /\ renders = 1
  /\ pc = "spawn"
  /\ t = 0
  /\ thread_count = 2
  /\ sections_remaining = 2

\* C8: a second render of the same configuration and scene, with the same
\* per-worker random streams, fills the framebuffer with the same values as
\* the first, whatever the interleaving of the workers.
C8_RenderDeterministic ==
  (Barrier /\ renders >= 1) => framebuffer = prev_framebuffer

\* a second render by two workers of an image that is not uniform
C8_Witness ==
  /\ Barrier
  /\ renders = 1
  /\ thread_count = 2
  /\ framebuffer = prev_framebuffer
  /\ \E x, y \in Indices : framebuffer[x] # framebuffer[y]

\* C9: past the barrier every framebuffer entry is the sum of
\* samples_per_pixel colours sampled for its own pixel; the entries are
\* scaled once, at emission, and go out in row-major order, one per index.
C9_SumsThenScaledInOrder ==
  /\ Barrier =>
       \A x \in Indices :
         /\ stored[x].ns = samples_per_pixel
         /\ stored[x].px = <<x % image_width, x \div image_width>>
  /\ (Barrier \/ (pc = "idle" /\ renders >= 1)) =>
       \A n \in 2 .. Len(OutNow) :
         OutNow[n] = [kind |-> "pixel", den |-> samples_per_pixel,
                   num |-> IF Barrier THEN framebuffer[n - 2]
                           ELSE prev_framebuffer[n - 2]]
  /\ Barrier => Len(OutNow) = 1 + emit_index
  /\ (pc = "idle" /\ renders >= 1) =>
       Len(OutNow) = 1 + image_width * image_height

\* the iterative form: the product of the attenuations so far, times the
\* background of the first ray that misses
RECURSIVE AccumulatorColor(_, _, _, _)
AccumulatorColor(r, left, acc, w) ==
  IF left <= 0 THEN Black
  ELSE IF w[r].kind = "miss" THEN acc * background(r)
  ELSE IF w[r].kind = "absorb" THEN Black
  ELSE AccumulatorColor(w[r].to, left - 1, acc * w[r].att, w)

\* C10: ray_color with depth <= 0 is black and asks the scene nothing; with
\* depth d >= 1 it makes at most d hit queries and d scatter calls and
\* returns what the iterative accumulator form returns.
C10_DepthBoundedAccumulator ==
  pc = "rc_done" =>
    /\ rc_depth <= 0 =>
         rc_result = [col |-> Black, hits |-> 0, scatters |-> 0]
    /\ rc_depth >= 1 =>
         /\ rc_result.hits >= 1
         /\ rc_result.hits <= rc_depth
         /\ rc_result.scatters <= rc_depth
         /\ rc_result.col = AccumulatorColor(rc_ray, rc_depth, 1, world)

\* two bounces, then the ray escapes: attenuation * attenuation * background
C10_Witness ==
  /\ pc = "rc_done"
  /\ rc_depth = 3
  /\ rc_result.hits = 3
  /\ rc_result.scatters = 2
  /\ rc_result.col > Black

====
